---- MODULE Spec2Model ----
(***************************************************************************)
(* The composable-pipeline abstraction exercised by docs/examples:         *)
(* leaf Runnables and the composites (Sequence, Parallel, Branch) they are *)
(* composed into, with invoke / batch / ainvoke.                           *)
(*                                                                         *)
(* The leaf computations and the composite configurations are those of the *)
(* example scripts.  The composition engine itself (langchain_core) is not *)
(* part of the example sources; it is modelled from spec.md sections 4, 5  *)
(* and 7.                                                                  *)
(***************************************************************************)
EXTENDS Integers, Sequences, FiniteSets, TLC

(***************************************************************************)
(* Python values.  Every value is a record of one shape, tagged by t:      *)
(*   "int"   n is the integer                                              *)
(*   "bool"  n is 1 (True) or 0 (False)                                    *)
(*   "float" the exact quotient n / s[1]                                   *)
(*   "none"  None                                                          *)
(*   "str"   s is the sequence of character codes                          *)
(*   "list"  s is a list of integers                                       *)
(*   "set"   s lists the integer members in increasing order               *)
(*   "dict"  m maps each key (a string) to its value                       *)
(*   "message"   s is the content of the message                           *)
(*   "messages"  a list of n messages, m maps each position to its message *)
(***************************************************************************)
NoMap == [k \in {} |-> 0]

IntV(i) == [t |-> "int", n |-> i, s |-> <<>>, m |-> NoMap]

BoolV(b) == [t |-> "bool", n |-> IF b THEN 1 ELSE 0, s |-> <<>>, m |-> NoMap]

FloatV(num, den) == [t |-> "float", n |-> num, s |-> <<den>>, m |-> NoMap]

NoneV == [t |-> "none", n |-> 0, s |-> <<>>, m |-> NoMap]

StrV(q) == [t |-> "str", n |-> 0, s |-> q, m |-> NoMap]

ListV(q) == [t |-> "list", n |-> 0, s |-> q, m |-> NoMap]

SetV(q) == [t |-> "set", n |-> 0, s |-> q, m |-> NoMap]

DictV(f) == [t |-> "dict", n |-> 0, s |-> <<>>, m |-> f]

(***************************************************************************)
(* Outcomes of a call.  An exception is a sequence of layers, outermost    *)
(* wrapper first, the leaf's own exception last; each layer has a kind, a  *)
(* name (the missing key of a KeyError, the branch of a                    *)
(* ParallelBranchError) and an index (the element of a BatchElementError). *)
(* trace lists the leaf computations that were called, in call order.      *)
(***************************************************************************)
Layer(kind, name, idx) == [kind |-> kind, name |-> name, idx |-> idx]

Ok(v) == [ok |-> TRUE, val |-> v, err |-> <<>>, trace |-> <<>>]

Raise(kind, name) ==
    [ok |-> FALSE, val |-> NoneV, err |-> <<Layer(kind, name, 0)>>, trace |-> <<>>]

TypeError == Raise("TypeError", "")

KeyError(key) == Raise("KeyError", key)

ZeroDivisionError == Raise("ZeroDivisionError", "")

\* The outcome r with the exception wrapped in one more layer.
Wrap(layer, r) == [r EXCEPT !.err = <<layer>> \o @]

\* The outcome r as the outcome of a call that first called the leaves in tr.
After(tr, r) == [r EXCEPT !.trace = tr \o @]

Min(a, b) == IF a < b THEN a ELSE b

\* q repeated k times (Python's sequence * int).
RECURSIVE Repeat(_, _)
Repeat(q, k) == IF k <= 0 THEN <<>> ELSE q \o Repeat(q, k - 1)

RECURSIVE Sum(_)
Sum(q) == IF q = <<>> THEN 0 ELSE Head(q) + Sum(Tail(q))

SeqMax(q) == CHOOSE a \in {q[i] : i \in DOMAIN q} : \A j \in DOMAIN q : q[j] <= a

SeqMin(q) == CHOOSE a \in {q[i] : i \in DOMAIN q} : \A j \in DOMAIN q : a <= q[j]

RECURSIVE Filter(_, _)
Filter(q, sign) ==
    IF q = <<>> THEN <<>>
    ELSE LET h == Head(q)
             keep == \/ sign = 1 /\ h > 0
                     \/ sign = -1 /\ h < 0
                     \/ sign = 0 /\ h = 0
         IN (IF keep THEN <<h>> ELSE <<>>) \o Filter(Tail(q), sign)

(***************************************************************************)
(* Python's arithmetic on the values above.                                *)
(***************************************************************************)
\* x * k for an int literal k.
PyMul(x, k) ==
    CASE x.t = "int" -> Ok(IntV(x.n * k))
      [] x.t = "bool" -> Ok(IntV(x.n * k))
      [] x.t = "float" -> Ok(FloatV(x.n * k, x.s[1]))
      [] x.t = "str" -> Ok(StrV(Repeat(x.s, k)))
      [] x.t = "list" -> Ok(ListV(Repeat(x.s, k)))
      [] x.t \in {"none", "dict", "set"} -> TypeError

\* x + k for an int literal k.
PyAdd(x, k) ==
    CASE x.t = "int" -> Ok(IntV(x.n + k))
      [] x.t = "bool" -> Ok(IntV(x.n + k))
      [] x.t = "float" -> Ok(FloatV(x.n + k * x.s[1], x.s[1]))
      [] x.t \in {"none", "dict", "set", "str", "list"} -> TypeError

\* x ** 2.
PySquare(x) ==
    CASE x.t = "int" -> Ok(IntV(x.n * x.n))
      [] x.t = "bool" -> Ok(IntV(x.n * x.n))
      [] x.t = "float" -> Ok(FloatV(x.n * x.n, x.s[1] * x.s[1]))
      [] x.t \in {"none", "dict", "set", "str", "list"} -> TypeError

\* -x.
PyNeg(x) ==
    CASE x.t = "int" -> Ok(IntV(-x.n))
      [] x.t = "bool" -> Ok(IntV(-x.n))
      [] x.t = "float" -> Ok(FloatV(-x.n, x.s[1]))
      [] x.t \in {"none", "dict", "set", "str", "list"} -> TypeError

\* x[key] for a string key.
PyGetItem(x, key) ==
    CASE x.t = "dict" -> IF key \in DOMAIN x.m THEN Ok(x.m[key]) ELSE KeyError(key)
      [] x.t \in {"int", "bool", "float", "none", "set", "str", "list"} -> TypeError

\* len(x).
PyLen(x) ==
    CASE x.t \in {"str", "list", "set"} -> Ok(IntV(Len(x.s)))
      [] x.t = "dict" -> Ok(IntV(Cardinality(DOMAIN x.m)))
      [] x.t \in {"int", "bool", "float", "none"} -> TypeError

\* x[:k].
PySlice(x, k) ==
    CASE x.t = "str" -> Ok(StrV(SubSeq(x.s, 1, Min(k, Len(x.s)))))
      [] x.t = "list" -> Ok(ListV(SubSeq(x.s, 1, Min(k, Len(x.s)))))
      [] x.t \in {"int", "bool", "float", "none", "set"} -> TypeError

\* a + b and a * b for the two operands of sum_result and product_result.
PyPlus(a, b) ==
    CASE a.t \in {"int", "bool"} /\ b.t \in {"int", "bool"} -> Ok(IntV(a.n + b.n))
      [] a.t = "str" /\ b.t = "str" -> Ok(StrV(a.s \o b.s))
      [] a.t = "list" /\ b.t = "list" -> Ok(ListV(a.s \o b.s))
      [] a.t \in {"int", "bool"} /\ b.t \in {"str", "list"} -> TypeError
      [] a.t \in {"str", "list"} /\ b.t \in {"int", "bool"} -> TypeError
      [] a.t = "str" /\ b.t = "list" -> TypeError
      [] a.t = "list" /\ b.t = "str" -> TypeError
      [] a.t = "none" \/ b.t = "none" -> TypeError
      [] a.t = "dict" \/ b.t = "dict" -> TypeError

PyTimes(a, b) ==
    CASE a.t \in {"int", "bool"} /\ b.t \in {"int", "bool"} -> Ok(IntV(a.n * b.n))
      [] a.t \in {"int", "bool"} /\ b.t = "str" -> Ok(StrV(Repeat(b.s, a.n)))
      [] a.t = "str" /\ b.t \in {"int", "bool"} -> Ok(StrV(Repeat(a.s, b.n)))
      [] a.t \in {"int", "bool"} /\ b.t = "list" -> Ok(ListV(Repeat(b.s, a.n)))
      [] a.t = "list" /\ b.t \in {"int", "bool"} -> Ok(ListV(Repeat(a.s, b.n)))
      [] a.t \in {"str", "list"} /\ b.t \in {"str", "list"} -> TypeError
      [] a.t = "none" \/ b.t = "none" -> TypeError
      [] a.t = "dict" \/ b.t = "dict" -> TypeError

(***************************************************************************)
(* The leaf computations of the example scripts.  Each takes a value and   *)
(* gives an outcome; Python raises where an operator is applied to a value *)
(* it is not defined on.                                                   *)
(***************************************************************************)
\* r's value passed on to F, or r's exception.
Bind(r, F(_)) == IF r.ok THEN F(r.val) ELSE r

\* input * input where input * 2 is meant.
DoubleRunnable_invoke_squares(input) == PyTimes(input, input)

\* input ** 2 where input * 2 is meant.
DoubleRunnable_invoke_power(input) == PySquare(input)

\* 01_basic_runnable.py: DoubleRunnable.invoke, input * 2.
DoubleRunnable_invoke(input) == PyMul(input, 2)

\* 01_basic_runnable.py: AddTenRunnable.invoke, input + 10.
AddTenRunnable_invoke(input) == PyAdd(input, 10)

\* 03_runnable_parallel.py, example_1_basic_parallel.
lambda_doubled(x) == PyMul(x, 2)

lambda_tripled(x) == PyMul(x, 3)

\* x * 2 where x ** 2 is meant.
lambda_squared_times(x) == PyMul(x, 2)

lambda_squared(x) == PySquare(x)

\* 03_runnable_parallel.py, example_3_parallel_in_chain: x["a"] is read
\* before x["b"].
lambda_sum_result(x) ==
    Bind(PyGetItem(x, "a"), LAMBDA a : Bind(PyGetItem(x, "b"), LAMBDA b : PyPlus(a, b)))

lambda_product_result(x) ==
    Bind(PyGetItem(x, "a"), LAMBDA a : Bind(PyGetItem(x, "b"), LAMBDA b : PyTimes(a, b)))

\* 03_runnable_parallel.py, example_2_dict_syntax.
lambda_add_10(x) == PyAdd(x, 10)

lambda_multiply_5(x) == PyMul(x, 5)

\* 03_runnable_parallel.py, example_4_nested_parallel.
lambda_add(x) == PyAdd(x, 10)

lambda_multiply(x) == PyMul(x, 2)

lambda_power(x) == PySquare(x)

lambda_negative(x) == PyNeg(x)

\* max(numbers) computed before the mean: the empty list raises ValueError.
calculate_statistics_max_first(numbers) ==
    CASE numbers.t = "list" ->
           IF Len(numbers.s) = 0 THEN Raise("ValueError", "")
           ELSE Ok(DictV([max |-> IntV(SeqMax(numbers.s)),
                          mean |-> FloatV(Sum(numbers.s), Len(numbers.s)),
                          min |-> IntV(SeqMin(numbers.s))]))
      [] numbers.t \in {"none", "int", "bool", "float"} -> TypeError

\* 03_runnable_parallel.py, example_6_real_world_scenario.  The dict literal
\* is built in order: "mean" divides by len(numbers) before max and min run.
calculate_statistics(numbers) ==
    CASE numbers.t = "list" ->
           IF Len(numbers.s) = 0 THEN ZeroDivisionError
           ELSE Ok(DictV([mean |-> FloatV(Sum(numbers.s), Len(numbers.s)),
                          max |-> IntV(SeqMax(numbers.s)),
                          min |-> IntV(SeqMin(numbers.s))]))
      [] numbers.t \in {"none", "int", "bool", "float"} -> TypeError

categorize_values(numbers) ==
    CASE numbers.t = "list" ->
           Ok(DictV([positive |-> ListV(Filter(numbers.s, 1)),
                     negative |-> ListV(Filter(numbers.s, -1)),
                     zero |-> ListV(Filter(numbers.s, 0))]))
      [] numbers.t \in {"none", "int", "bool", "float"} -> TypeError

count_items(numbers) ==
    Bind(PyLen(numbers), LAMBDA k : Ok(DictV([total_count |-> k])))

\* 04_complete_chain.py, example_4_conditional_logic.
ShortLabel == <<83, 104, 111, 114, 116, 32, 116, 101, 120, 116, 58, 32>>

MediumLabel == <<77, 101, 100, 105, 117, 109, 32, 116, 101, 120, 116, 58, 32>>

LongLabel == <<76, 111, 110, 103, 32, 116, 101, 120, 116, 58, 32>>

Ellipsis == <<46, 46, 46>>

\* format(v) inside an f-string, for the values that reach one here.
RECURSIVE Digits(_)
Digits(k) == IF k < 10 THEN <<48 + k>> ELSE Digits(k \div 10) \o <<48 + (k % 10)>>

\* ", ".join(str(i) for i in q), q a sequence of naturals.
RECURSIVE JoinInts(_)
JoinInts(q) ==
    IF Len(q) = 1 THEN Digits(q[1])
    ELSE Digits(q[1]) \o <<44, 32>> \o JoinInts(Tail(q))

PyFormat(v) ==
    CASE v.t = "str" -> v.s
      [] v.t = "int" /\ v.n >= 0 -> Digits(v.n)
      [] v.t = "int" /\ v.n < 0 -> <<45>> \o Digits(-v.n)
      [] v.t = "none" -> <<78, 111, 110, 101>>
      [] v.t = "set" /\ v.s = <<>> -> <<115, 101, 116, 40, 41>>
      [] v.t = "set" /\ v.s # <<>> -> <<123>> \o JoinInts(v.s) \o <<125>>

\* <= 10 where < 10 is meant.
cond_short_inclusive(x) ==
    Bind(PyGetItem(x, "text"), LAMBDA v : Bind(PyLen(v), LAMBDA k : Ok(BoolV(k.n <= 10))))

\* x.get("text", "") where x["text"] is meant: a missing text counts as empty.
cond_short_default(x) ==
    IF x.t = "dict" /\ "text" \notin DOMAIN x.m THEN Ok(BoolV(TRUE))
    ELSE Bind(PyGetItem(x, "text"), LAMBDA v : Bind(PyLen(v), LAMBDA k : Ok(BoolV(k.n < 10))))

cond_short(x) ==
    Bind(PyGetItem(x, "text"), LAMBDA v : Bind(PyLen(v), LAMBDA k : Ok(BoolV(k.n < 10))))

cond_medium(x) ==
    Bind(PyGetItem(x, "text"), LAMBDA v : Bind(PyLen(v), LAMBDA k : Ok(BoolV(k.n < 50))))

lambda_short(x) ==
    Bind(PyGetItem(x, "text"), LAMBDA v : Ok(StrV(ShortLabel \o PyFormat(v))))

lambda_medium(x) ==
    Bind(PyGetItem(x, "text"),
         LAMBDA v : Bind(PySlice(v, 20),
                         LAMBDA w : Ok(StrV(MediumLabel \o PyFormat(w) \o Ellipsis))))

lambda_long(x) ==
    Bind(PyGetItem(x, "text"),
         LAMBDA v : Bind(PySlice(v, 30),
                         LAMBDA w : Ok(StrV(LongLabel \o PyFormat(w) \o Ellipsis))))

\* 04_complete_chain.py, example_3_multi_stage_processing (ASCII text).
TextHas == <<84, 101, 120, 116, 32, 104, 97, 115, 32>>

Words == <<32, 119, 111, 114, 100, 115>>

ProcessedLabel == <<80, 114, 111, 99, 101, 115, 115, 101, 100, 58, 32>>

Bar == <<32, 124, 32>>

IsSpace(c) == c \in (9..13) \cup (28..32)

\* str.upper().
Upper(q) == [i \in DOMAIN q |-> IF q[i] \in 97..122 THEN q[i] - 32 ELSE q[i]]

\* len(str.split()): the number of maximal runs of non-whitespace.
WordCount(q) ==
    Cardinality({i \in DOMAIN q : ~IsSpace(q[i]) /\ (i = 1 \/ IsSpace(q[i - 1]))})

PyUpper(v) ==
    CASE v.t = "str" -> Ok(StrV(Upper(v.s)))
      [] v.t \in {"int", "bool", "float", "none", "list", "set", "dict"} ->
           Raise("AttributeError", "upper")

PySplitLen(v) ==
    CASE v.t = "str" -> Ok(IntV(WordCount(v.s)))
      [] v.t \in {"int", "bool", "float", "none", "list", "set", "dict"} ->
           Raise("AttributeError", "split")

\* x.get("text", "") where x["text"] is meant: a missing text counts as empty.
prepare_stage_default(x) ==
    IF x.t = "dict" /\ "text" \notin DOMAIN x.m
    THEN Ok(DictV([processed_text |-> StrV(<<>>), word_count |-> IntV(0)]))
    ELSE Bind(PyGetItem(x, "text"),
              LAMBDA v : Bind(PyUpper(v),
                              LAMBDA u : Bind(PySplitLen(v),
                                              LAMBDA k : Ok(DictV([processed_text |-> u,
                                                                   word_count |-> k])))))

prepare_stage(x) ==
    Bind(PyGetItem(x, "text"),
         LAMBDA v : Bind(PyUpper(v),
                         LAMBDA u : Bind(PySplitLen(v),
                                         LAMBDA k : Ok(DictV([processed_text |-> u,
                                                              word_count |-> k])))))

lambda_text_info(x) ==
    Bind(PyGetItem(x, "word_count"), LAMBDA k : Ok(StrV(TextHas \o PyFormat(k) \o Words)))

lambda_processed(x) ==
    Bind(PyGetItem(x, "processed_text"), LAMBDA u : Ok(StrV(ProcessedLabel \o PyFormat(u))))

combine_stage(x) ==
    Bind(PyGetItem(x, "text_info"),
         LAMBDA a : Bind(PyGetItem(x, "processed"),
                         LAMBDA b : Ok(StrV(PyFormat(a) \o Bar \o PyFormat(b)))))

\* The function a leaf Runnable wraps, by the leaf's name.
(***************************************************************************)
(* 04_complete_chain.py, MockChatModel and example_2_parallel_branches.    *)
(* A message is a value with t = "message" whose s is its content; a list  *)
(* of messages is a value with t = "messages", n its length and m its      *)
(* items, keyed by position.                                               *)
(***************************************************************************)
IndexKeys == <<"1", "2", "3", "4">>

MsgV(content) == [t |-> "message", n |-> 0, s |-> content, m |-> NoMap]

MessagesV(q) ==
    [t |-> "messages", n |-> Len(q), s |-> <<>>,
     m |-> [k \in {IndexKeys[i] : i \in 1..Len(q)} |->
               q[CHOOSE i \in 1..Len(q) : IndexKeys[i] = k]]]

\* str.lower().
Lower(q) == [i \in DOMAIN q |-> IF q[i] \in 65..90 THEN q[i] + 32 ELSE q[i]]

\* needle in hay.
Contains(hay, needle) ==
    \E i \in 1..(Len(hay) - Len(needle) + 1) :
        SubSeq(hay, i, i + Len(needle) - 1) = needle

\* "joke"
JokeWord ==
    <<106, 111, 107, 101>>

\* "translate"
TranslateWord ==
    <<116, 114, 97, 110, 115, 108, 97, 116, 101>>

\* "summarize"
SummarizeWord ==
    <<115, 117, 109, 109, 97, 114, 105, 122, 101>>

\* "Why did the programmer quit? Because they didn't get arrays!"
JokeReply ==
    <<87, 104, 121, 32, 100, 105, 100, 32, 116, 104, 101, 32, 112, 114, 111,
      103, 114, 97, 109, 109, 101, 114, 32, 113, 117, 105, 116, 63, 32, 66,
      101, 99, 97, 117, 115, 101, 32, 116, 104, 101, 121, 32, 100, 105, 100,
      110, 39, 116, 32, 103, 101, 116, 32, 97, 114, 114, 97, 121, 115, 33>>

\* "Bonjour le monde!"
TranslationReply ==
    <<66, 111, 110, 106, 111, 117, 114, 32, 108, 101, 32, 109, 111, 110, 100,
      101, 33>>

\* "This is a concise summary of the content."
SummaryReply ==
    <<84, 104, 105, 115, 32, 105, 115, 32, 97, 32, 99, 111, 110, 99, 105, 115,
      101, 32, 115, 117, 109, 109, 97, 114, 121, 32, 111, 102, 32, 116, 104,
      101, 32, 99, 111, 110, 116, 101, 110, 116, 46>>

\* "I received your message: "
EchoLabel ==
    <<73, 32, 114, 101, 99, 101, 105, 118, 101, 100, 32, 121, 111, 117, 114,
      32, 109, 101, 115, 115, 97, 103, 101, 58, 32>>

\* "translate" is looked for before "joke".
MockChatModel_invoke_translate_first(messages) ==
    LET last_message ==
            CASE messages.t = "messages" /\ messages.n > 0 ->
                   LET last == messages.m[IndexKeys[messages.n]]
                   IN Ok(StrV(IF last.t = "message" THEN last.s ELSE PyFormat(last)))
              [] messages.t = "str" /\ messages.s # <<>> ->
                   Ok(StrV(<<messages.s[Len(messages.s)]>>))
              [] messages.t = "list" /\ messages.s # <<>> ->
                   Ok(StrV(PyFormat(IntV(messages.s[Len(messages.s)]))))
              [] messages.t \in {"messages", "str", "list"} /\ messages.n = 0
                                                           /\ messages.s = <<>> ->
                   Raise("IndexError", "")
              [] messages.t = "dict" -> KeyError("-1")
              [] messages.t \in {"int", "bool", "float", "none", "set", "message"} ->
                   TypeError
    IN Bind(last_message,
            LAMBDA v :
               Ok(MsgV(IF Contains(Lower(v.s), TranslateWord) THEN TranslationReply
                       ELSE IF Contains(Lower(v.s), JokeWord) THEN JokeReply
                       ELSE IF Contains(Lower(v.s), SummarizeWord) THEN SummaryReply
                       ELSE EchoLabel \o v.s)))

\* messages[-1] is the last message of a list (the last character of a str,
\* the last number of a list of numbers); its content if it has one, else
\* str() of it, is what the keywords are looked for in.
MockChatModel_invoke(messages) ==
    LET last_message ==
            CASE messages.t = "messages" /\ messages.n > 0 ->
                   LET last == messages.m[IndexKeys[messages.n]]
                   IN Ok(StrV(IF last.t = "message" THEN last.s ELSE PyFormat(last)))
              [] messages.t = "str" /\ messages.s # <<>> ->
                   Ok(StrV(<<messages.s[Len(messages.s)]>>))
              [] messages.t = "list" /\ messages.s # <<>> ->
                   Ok(StrV(PyFormat(IntV(messages.s[Len(messages.s)]))))
              [] messages.t \in {"messages", "str", "list"} /\ messages.n = 0
                                                           /\ messages.s = <<>> ->
                   Raise("IndexError", "")
              [] messages.t = "dict" -> KeyError("-1")
              [] messages.t \in {"int", "bool", "float", "none", "set", "message"} ->
                   TypeError
    IN Bind(last_message,
            LAMBDA v :
               Ok(MsgV(IF Contains(Lower(v.s), JokeWord) THEN JokeReply
                       ELSE IF Contains(Lower(v.s), TranslateWord) THEN TranslationReply
                       ELSE IF Contains(Lower(v.s), SummarizeWord) THEN SummaryReply
                       ELSE EchoLabel \o v.s)))

\* "Tell me a joke about "
JokeTemplate ==
    <<84, 101, 108, 108, 32, 109, 101, 32, 97, 32, 106, 111, 107, 101, 32, 97,
      98, 111, 117, 116, 32>>

\* "Translate '"
TranslateOpen ==
    <<84, 114, 97, 110, 115, 108, 97, 116, 101, 32, 39>>

\* "' to French"
TranslateClose ==
    <<39, 32, 116, 111, 32, 70, 114, 101, 110, 99, 104>>

\* ChatPromptTemplate.from_template("Tell me a joke about {topic}"): one
\* message, the template with {topic} filled in.
joke_prompt(x) ==
    Bind(PyGetItem(x, "topic"),
         LAMBDA v : Ok(MessagesV(<<MsgV(JokeTemplate \o PyFormat(v))>>)))

\* ChatPromptTemplate.from_template("Translate '{text}' to French").
translate_prompt(x) ==
    Bind(PyGetItem(x, "text"),
         LAMBDA v : Ok(MessagesV(<<MsgV(TranslateOpen \o PyFormat(v) \o TranslateClose)>>)))

\* StrOutputParser: the content of the message.
StrOutputParser(x) ==
    CASE x.t = "message" -> Ok(StrV(x.s))
      [] x.t = "str" -> Ok(x)
      [] x.t \in {"int", "bool", "float", "none", "list", "set", "dict", "messages"} ->
           Raise("OutputParserException", "")

ApplyLeaf(name, x) ==
    CASE name = "DoubleRunnable" -> DoubleRunnable_invoke(x)
      [] name = "AddTenRunnable" -> AddTenRunnable_invoke(x)
      [] name = "doubled" -> lambda_doubled(x)
      [] name = "tripled" -> lambda_tripled(x)
      [] name = "squared" -> lambda_squared(x)
      [] name = "sum_result" -> lambda_sum_result(x)
      [] name = "product_result" -> lambda_product_result(x)
      [] name = "add" -> lambda_add(x)
      [] name = "multiply" -> lambda_multiply(x)
      [] name = "power" -> lambda_power(x)
      [] name = "negative" -> lambda_negative(x)
      [] name = "calculate_statistics" -> calculate_statistics(x)
      [] name = "categorize_values" -> categorize_values(x)
      [] name = "count_items" -> count_items(x)
      [] name = "cond_short" -> cond_short(x)
      [] name = "cond_medium" -> cond_medium(x)
      [] name = "short" -> lambda_short(x)
      [] name = "medium" -> lambda_medium(x)
      [] name = "long" -> lambda_long(x)
      [] name = "prepare_stage" -> prepare_stage(x)
      [] name = "text_info" -> lambda_text_info(x)
      [] name = "processed" -> lambda_processed(x)
      [] name = "combine_stage" -> combine_stage(x)
      [] name = "add_10" -> lambda_add_10(x)
      [] name = "multiply_5" -> lambda_multiply_5(x)
      [] name = "MockChatModel" -> MockChatModel_invoke(x)
      [] name = "joke_prompt" -> joke_prompt(x)
      [] name = "translate_prompt" -> translate_prompt(x)
      [] name = "StrOutputParser" -> StrOutputParser(x)

(***************************************************************************)
(* Units.  A Unit is a record of one shape:                                *)
(*   k = "leaf"    name names the wrapped function                         *)
(*   k = "seq"     kids are the member Units, in order                     *)
(*   k = "par"     keys are the branch names, kids[i] the Unit of keys[i]  *)
(*   k = "branch"  keys name the predicates, kids[i] is the Unit of        *)
(*                 predicate i, and the last of kids is the default Unit   *)
(* A dict literal of Units, which is a Python dict and no Unit, has the    *)
(* same shape with k = "dict".                                             *)
(***************************************************************************)
Leaf(name) == [k |-> "leaf", name |-> name, keys |-> <<>>, kids |-> <<>>]

RunnableSequence(first, last) ==
    [k |-> "seq", name |-> "", keys |-> <<>>, kids |-> <<first, last>>]

RunnableParallel(keys, kids) == [k |-> "par", name |-> "", keys |-> keys, kids |-> kids]

\* {name: unit, ...}: a dict.
DictLiteral(keys, kids) == [k |-> "dict", name |-> "", keys |-> keys, kids |-> kids]

\* The attributes a dict can be called by.
DictMethods ==
    {"clear", "copy", "fromkeys", "get", "items", "keys", "pop", "popitem",
     "setdefault", "update", "values"}

RunnableBranch(keys, kids) == [k |-> "branch", name |-> "", keys |-> keys, kids |-> kids]

\* A composition that keeps only the last member of a composed self.
Then_drops_first(self, other) ==
    RunnableSequence(IF self.k = "seq" THEN self.kids[Len(self.kids)] ELSE self, other)

\* self | other.
Then(self, other) == RunnableSequence(self, other)

\* 01_basic_runnable.py, main.
doubler == Leaf("DoubleRunnable")

adder == Leaf("AddTenRunnable")

\* The two members piped the other way round.
chain_reversed == Then(adder, doubler)

chain == Then(doubler, adder)

\* 04_complete_chain.py, example_2_parallel_branches.
model == Leaf("MockChatModel")

chat_parallel ==
    RunnableParallel(<<"joke", "translation">>,
                     <<Then(Then(Leaf("joke_prompt"), model), Leaf("StrOutputParser")),
                       Then(Then(Leaf("translate_prompt"), model),
                            Leaf("StrOutputParser"))>>)

\* 03_runnable_parallel.py.
dict_parallel ==
    DictLiteral(<<"add_10", "multiply_5">>, <<Leaf("add_10"), Leaf("multiply_5")>>)

\* The RunnableParallel of the branches of dict_parallel.
explicit_parallel == RunnableParallel(dict_parallel.keys, dict_parallel.kids)

parallel_basic ==
    RunnableParallel(<<"doubled", "tripled", "squared">>,
                     <<Leaf("doubled"), Leaf("tripled"), Leaf("squared")>>)

\* The two branches declared the other way round.
parallel_step_swapped ==
    RunnableParallel(<<"product_result", "sum_result">>,
                     <<Leaf("product_result"), Leaf("sum_result")>>)

parallel_step ==
    RunnableParallel(<<"sum_result", "product_result">>,
                     <<Leaf("sum_result"), Leaf("product_result")>>)

arithmetic_ops == RunnableParallel(<<"add", "multiply">>, <<Leaf("add"), Leaf("multiply")>>)

outer_parallel ==
    RunnableParallel(<<"arithmetic", "power", "negative">>,
                     <<arithmetic_ops, Leaf("power"), Leaf("negative")>>)

analysis_pipeline ==
    RunnableParallel(<<"statistics", "categories", "count">>,
                     <<Leaf("calculate_statistics"), Leaf("categorize_values"),
                       Leaf("count_items")>>)

\* 04_complete_chain.py.
analyze_stage ==
    RunnableParallel(<<"text_info", "processed">>, <<Leaf("text_info"), Leaf("processed")>>)

pipeline == Then(Then(Leaf("prepare_stage"), analyze_stage), Leaf("combine_stage"))

branch ==
    RunnableBranch(<<"cond_short", "cond_medium">>,
                   <<Leaf("short"), Leaf("medium"), Leaf("long")>>)

(***************************************************************************)
(* invoke as a function of the Unit and the input: what a call gives when  *)
(* nothing else runs in between.                                           *)
(***************************************************************************)
\* bool(v), for the values a predicate returns.
Truthy(v) ==
    CASE v.t \in {"bool", "int"} -> v.n # 0
      [] v.t = "none" -> FALSE
      [] v.t \in {"str", "list", "set"} -> v.s # <<>>
      [] v.t = "dict" -> DOMAIN v.m # {}

\* The position of branch name key in keys.
KeyIndex(keys, key) == CHOOSE i \in DOMAIN keys : keys[i] = key

\* The mapping a Parallel returns: each branch name to its branch's output.
Mapping(keys, outs) ==
    DictV([key \in {keys[i] : i \in DOMAIN keys} |-> outs[KeyIndex(keys, key)].val])

\* The leaves called by the finished tasks, task by task.
RECURSIVE Traces(_, _)
Traces(outs, i) == IF i > Len(outs) THEN <<>> ELSE outs[i].trace \o Traces(outs, i + 1)

\* The first position whose outcome is an exception, or 0.
FirstFailed(outs) ==
    IF \A i \in DOMAIN outs : outs[i].ok THEN 0
    ELSE CHOOSE i \in DOMAIN outs : ~outs[i].ok /\ \A j \in 1..(i - 1) : outs[j].ok

ParallelBranchError(key, r) == Wrap(Layer("ParallelBranchError", key, 0), r)

PredicateEvaluationError(key, r) == Wrap(Layer("PredicateEvaluationError", key, 0), r)

BatchElementError(i, r) == Wrap(Layer("BatchElementError", "", i), r)

RECURSIVE Invoke(_, _)
RECURSIVE InvokeSteps(_, _, _)
RECURSIVE InvokeBranch(_, _, _)

\* Sequence: each member's output is the next member's input; a member's
\* exception ends the sequence and is the sequence's exception.
InvokeSteps(kids, i, x) ==
    IF i > Len(kids) THEN Ok(x)
    ELSE LET r == Invoke(kids[i], x)
         IN IF r.ok THEN After(r.trace, InvokeSteps(kids, i + 1, r.val)) ELSE r

\* Branch: the predicates in registration order; the first true one selects.
InvokeBranch(u, i, x) ==
    IF i > Len(u.keys) THEN Invoke(u.kids[Len(u.kids)], x)
    ELSE LET p == ApplyLeaf(u.keys[i], x)
         IN IF ~p.ok THEN PredicateEvaluationError(u.keys[i], p)
            ELSE IF Truthy(p.val) THEN Invoke(u.kids[i], x)
            ELSE InvokeBranch(u, i + 1, x)

\* Parallel: every branch gets the same input.
InvokeParallel(u, x) ==
    LET outs == [i \in DOMAIN u.kids |-> Invoke(u.kids[i], x)]
        f == FirstFailed(outs)
    IN After(Traces(outs, 1),
             IF f = 0 THEN Ok(Mapping(u.keys, outs))
             ELSE ParallelBranchError(u.keys[f], [outs[f] EXCEPT !.trace = <<>>]))

Invoke(u, x) ==
    CASE u.k = "leaf" -> After(<<u.name>>, ApplyLeaf(u.name, x))
      [] u.k = "seq" -> InvokeSteps(u.kids, 1, x)
      [] u.k = "par" -> InvokeParallel(u, x)
      [] u.k = "branch" -> InvokeBranch(u, 1, x)
      [] u.k = "dict" -> Raise("AttributeError", "invoke")

(***************************************************************************)
(* Bounds of the model and the inputs the calls are made with.             *)
(***************************************************************************)
\* Integer inputs range over -1..MaxInt, and 5 (the examples' input).
MaxInt == 2

\* Lists given to the analysis pipeline have at most MaxLen items.
MaxLen == 2

\* Batches have at most MaxBatch elements.
MaxBatch == 3

\* A task suspends at most MaxYields times during an asynchronous call.
MaxYields == 1

IntInputs == {IntV(i) : i \in (-1..MaxInt) \cup {5}}

DictInputs ==
    {DictV(f) : f \in UNION {[K -> {IntV(3), IntV(4)}] : K \in SUBSET {"a", "b"}}}

ListInputs ==
    {ListV(q) : q \in UNION {[1..k -> {-1, 0, 2}] : k \in 0..MaxLen}}
    \cup {ListV(<<5, -3, 8, 0, -1, 12, 7>>)}

\* The three texts of example_4_conditional_logic and example_3's text.
Hi == <<72, 105>>

HelloTest ==
    <<72, 101, 108, 108, 111, 44, 32, 116, 104, 105, 115, 32, 105, 115, 32, 97, 32,
      116, 101, 115, 116>>

LongText ==
    <<84, 104, 105, 115, 32, 105, 115, 32, 97, 32, 118, 101, 114, 121, 32, 108, 111,
      110, 103, 32, 116, 101, 120, 116, 32, 116, 104, 97, 116, 32, 101, 120, 99, 101,
      101, 100, 115, 32, 116, 104, 101, 32, 109, 101, 100, 105, 117, 109, 32, 116,
      104, 114, 101, 115, 104, 111, 108, 100, 32, 97, 110, 100, 32, 119, 105, 108,
      108, 32, 98, 101, 32, 116, 114, 117, 110, 99, 97, 116, 101, 100>>

Awesome ==
    <<76, 97, 110, 103, 67, 104, 97, 105, 110, 32, 105, 115, 32, 97, 119, 101, 115,
      111, 109, 101>>

\* A text of k characters, and a set of k members.
TextOf(k) == [i \in 1..k |-> 120]

SetOf(k) == SetV([i \in 1..k |-> i])

\* Texts on both sides of each threshold of the example branch.
Texts == {Hi, HelloTest, LongText, Awesome} \cup {TextOf(k) : k \in {0, 9, 10, 49, 50}}

TextInputs ==
    {DictV([text |-> StrV(q)]) : q \in Texts}
    \cup {DictV(NoMap), DictV([text |-> IntV(5)]), DictV([text |-> NoneV]),
          DictV([text |-> SetOf(10)]), DictV([text |-> SetOf(50)])}

\* Message lists given to the chat model have at most MaxMessages messages.
MaxMessages == 2

\* The input of example_2_parallel_branches: topic "Python", text "Hello world".
ChatExample ==
    DictV([topic |-> StrV(<<80, 121, 116, 104, 111, 110>>),
           text |-> StrV(<<72, 101, 108, 108, 111, 32, 119, 111, 114, 108, 100>>)])

\* Contents of a last message: two pieces, each a keyword in some case, part
\* of a keyword or keyword-free text; and the prompts of the examples.
Contents ==
    LET Tokens == {<<>>, <<74, 111, 107, 101>>,
                   <<84, 114, 97, 110, 115, 108, 97, 116, 101>>,
                   <<83, 85, 77, 77, 65, 82, 73, 90, 69>>, <<106, 111, 107>>,
                   <<101, 32>>, <<104, 105>>}
    IN {a \o b : a \in Tokens, b \in Tokens}
       \cup {JokeTemplate \o ChatExample.m["topic"].s,
             TranslateOpen \o ChatExample.m["text"].s \o TranslateClose}

\* Lists of messages: the last an object with a content, a plain string or a
\* number, after up to MaxMessages - 1 others.
MessageLists ==
    LET MessageItems == {MsgV(c) : c \in Contents} \cup {StrV(c) : c \in Contents}
                        \cup {IntV(5)}
        EarlierItems == {MsgV(<<74, 111, 107, 101>>), StrV(<<104, 105>>)}
    IN {<<>>}
       \cup {q \o <<l>> : q \in UNION {[1..k -> EarlierItems] : k \in 0..(MaxMessages - 1)},
                          l \in MessageItems}

ChatInputs ==
    {DictV([topic |-> StrV(a), text |-> StrV(b)]) :
        a \in {ChatExample.m["topic"].s, <<74, 111, 107, 101>>},
        b \in {ChatExample.m["text"].s, <<97, 32, 74, 111, 107, 101>>, <<>>}}
    \cup {DictV([topic |-> ChatExample.m["topic"]]), DictV(NoMap)}

BatchInputs == UNION {[1..k -> {IntV(1), StrV(<<120>>), NoneV}] : k \in 0..MaxBatch}

\* The Units composed three at a time, both ways.
Pool == {doubler, adder, Leaf("sum_result")}

LeftAssoc(A, B, C) == Then(Then(A, B), C)

RightAssoc(A, B, C) == Then(A, Then(B, C))

\* The Units called both ways, invoke and then ainvoke, on one input.
AsyncUnits ==
    {doubler, chain, parallel_basic, outer_parallel, parallel_step, pipeline, branch}

AssocInputs == {IntV(5), NoneV, DictV([a |-> IntV(3), b |-> IntV(4)])}

Call(o, u, xs) == [op |-> o, unit |-> u, args |-> xs]

Calls ==
    {Call(o, u, <<x>>) : o \in {"invoke", "ainvoke"}, u \in {doubler, chain},
                         x \in IntInputs \cup {NoneV}}
    \cup {Call(o, u, <<x>>) : o \in {"invoke", "ainvoke"},
                              u \in {parallel_basic, outer_parallel},
                              x \in IntInputs \cup {NoneV}}
    \cup {Call(o, parallel_step, <<x>>) : o \in {"invoke", "ainvoke"}, x \in DictInputs}
    \cup {Call("invoke", analysis_pipeline, <<x>>) : x \in ListInputs \cup {NoneV}}
    \cup {Call(o, u, <<x>>) : o \in {"invoke", "ainvoke"}, u \in {pipeline, branch},
                              x \in TextInputs}
    \cup {Call("batch", doubler, xs) : xs \in BatchInputs}
    \cup {Call("batch", doubler, <<IntV(1), IntV(2), IntV(3), IntV(4), IntV(5)>>)}
    \cup {Call(o, doubler, <<IntV(7)>>) : o \in {"invoke", "ainvoke"}}
    \cup {Call("invoke", model, <<MessagesV(q)>>) : q \in MessageLists}
    \cup {Call(o, chat_parallel, <<x>>) : o \in {"invoke", "ainvoke"}, x \in ChatInputs}
    \cup {Call("invoke", u, <<x>>) : u \in {dict_parallel, explicit_parallel},
                                     x \in IntInputs \cup {IntV(3), NoneV}}
    \cup {Call("invoke", LeftAssoc(A, B, C), <<x>>) : A \in Pool, B \in Pool, C \in Pool,
                                                      x \in AssocInputs}

(***************************************************************************)
(* The state of one call in progress.                                      *)
(*   pc       "idle", "run" (a call is in progress), "done" (it returned)  *)
(*   op       the method called: "invoke", "ainvoke" or "batch"            *)
(*   unit     the Unit it was called on                                    *)
(*   args     the input (one for invoke and ainvoke, the list for batch)   *)
(*   st       per task (member, branch or batch element): "pending",       *)
(*            "running", "suspended", "ok", "failed" or "cancelled"        *)
(*   inp      per task, the input it was started with                      *)
(*   out      per task, its outcome once finished                          *)
(*   yields   per task, how often it has suspended                         *)
(*   nxt      the member a Sequence is at, the predicate a Branch is at    *)
(*   ret      the outcome returned to the caller                           *)
(*   prev     the call before this one, kept while its other composition   *)
(*            is run on the same input                                     *)
(***************************************************************************)
VARIABLES pc, op, unit, args, st, inp, out, yields, nxt, ret, prev

vars == <<pc, op, unit, args, st, inp, out, yields, nxt, ret, prev>>

NoOutcome == [ok |-> FALSE, val |-> NoneV, err |-> <<>>, trace |-> <<>>]

NoUnit == Leaf("")

NoPrev == [unit |-> NoUnit, args |-> <<>>, ret |-> NoOutcome]

Init ==
    /\ pc = "idle"
    /\ op = "none"
    /\ unit = NoUnit
    /\ args = <<>>
    /\ st = <<>>
    /\ inp = <<>>
    /\ out = <<>>
    /\ yields = <<>>
    /\ nxt = 1
    /\ ret = NoOutcome
    /\ prev = NoPrev

\* The tasks of a call: a batch's elements, a composite's children, the leaf.
TaskCount(o, u, xs) ==
    IF o = "batch" THEN Len(xs) ELSE IF u.k = "leaf" THEN 1 ELSE Len(u.kids)

N == TaskCount(op, unit, args)

TaskUnit(i) == IF op = "batch" \/ unit.k = "leaf" THEN unit ELSE unit.kids[i]

\* The calls whose tasks may run concurrently.
Concurrent == op = "batch" \/ unit.k = "par"

Serial(kind) == op \in {"invoke", "ainvoke"} /\ unit.k = kind

Running == \E i \in 1..N : st[i] = "running"

Terminal(i) == st[i] \in {"ok", "failed", "cancelled"}

Enter(o, u, xs) ==
    /\ pc' = "run"
    /\ op' = o
    /\ unit' = u
    /\ args' = xs
    /\ st' = [i \in 1..TaskCount(o, u, xs) |-> "pending"]
    /\ inp' = [i \in 1..TaskCount(o, u, xs) |-> NoneV]
    /\ out' = [i \in 1..TaskCount(o, u, xs) |-> NoOutcome]
    /\ yields' = [i \in 1..TaskCount(o, u, xs) |-> 0]
    /\ nxt' = 1
    /\ ret' = NoOutcome

\* The caller makes a call.
Begin(c) ==
    /\ pc = "idle"
    /\ prev = NoPrev
    /\ Enter(c.op, c.unit, c.args)
    /\ UNCHANGED prev

\* The caller, having run (A then B) then C, runs A then (B then C) on the
\* same input.
BeginRight(A, B, C) ==
    /\ pc = "idle"
    /\ prev.unit = LeftAssoc(A, B, C)
    /\ Enter("invoke", RightAssoc(A, B, C), prev.args)
    /\ UNCHANGED prev

\* The caller, having run invoke, awaits ainvoke of the same Unit on the same
\* input.
BeginAsync ==
    /\ pc = "idle"
    /\ prev.unit \in AsyncUnits
    /\ Enter("ainvoke", prev.unit, prev.args)
    /\ UNCHANGED prev

\* Task i has finished with outcome r.
Finished(i, r) ==
    /\ out' = [out EXCEPT ![i] = r]
    /\ st' = [st EXCEPT ![i] = IF r.ok THEN "ok" ELSE "failed"]

Return(r) ==
    /\ ret' = r
    /\ pc' = "done"

(***************************************************************************)
(* A leaf.                                                                 *)
(***************************************************************************)
LeafStart ==
    /\ pc = "run" /\ Serial("leaf")
    /\ st[1] = "pending"
    /\ st' = [st EXCEPT ![1] = "running"]
    /\ inp' = [inp EXCEPT ![1] = args[1]]
    /\ UNCHANGED <<pc, op, unit, args, out, yields, nxt, ret, prev>>

LeafFinish ==
    /\ pc = "run" /\ Serial("leaf")
    /\ st[1] = "running"
    /\ Finished(1, Invoke(unit, inp[1]))
    /\ UNCHANGED <<pc, op, unit, args, inp, yields, nxt, ret, prev>>

LeafReturn ==
    /\ pc = "run" /\ Serial("leaf")
    /\ st[1] \in {"ok", "failed"}
    /\ Return(out[1])
    /\ UNCHANGED <<op, unit, args, st, inp, out, yields, nxt, prev>>

(***************************************************************************)
(* parallel.invoke(x) where parallel is a dict: the attribute lookup fails *)
(* before anything is called.                                              *)
(***************************************************************************)
DictInvoke ==
    /\ pc = "run" /\ unit.k = "dict"
    /\ op \notin DictMethods
    /\ Return(Raise("AttributeError", op))
    /\ UNCHANGED <<op, unit, args, st, inp, out, yields, nxt, prev>>

(***************************************************************************)
(* Sequence.invoke: the members one after the other.                       *)
(***************************************************************************)
\* The input of member i: the call's input, then each member's output.
SeqInput(i) == IF i = 1 THEN args[1] ELSE out[i - 1].val

\* The member that may start next.
SeqNext(i) == i = nxt

SeqStart(i) ==
    /\ pc = "run" /\ Serial("seq")
    /\ SeqNext(i)
    /\ st[i] = "pending"
    /\ st' = [st EXCEPT ![i] = "running"]
    /\ inp' = [inp EXCEPT ![i] = SeqInput(i)]
    /\ UNCHANGED <<pc, op, unit, args, out, yields, nxt, ret, prev>>

SeqFinish(i) ==
    /\ pc = "run" /\ Serial("seq")
    /\ st[i] = "running"
    /\ LET r == Invoke(unit.kids[i], inp[i])
       IN /\ Finished(i, r)
          /\ nxt' = IF r.ok THEN nxt + 1 ELSE nxt
    /\ UNCHANGED <<pc, op, unit, args, inp, yields, ret, prev>>

\* What the sequence gives once member last has ended it: the last member's
\* output, or the failed member's own exception.
SeqOutcome(last) == After(Traces(SubSeq(out, 1, last - 1), 1), out[last])

SeqReturn ==
    /\ pc = "run" /\ Serial("seq")
    /\ \/ nxt = N + 1 /\ Return(SeqOutcome(N))
       \/ nxt <= N /\ st[nxt] = "failed" /\ Return(SeqOutcome(nxt))
    /\ UNCHANGED <<op, unit, args, st, inp, out, yields, nxt, prev>>

(***************************************************************************)
(* Parallel.invoke and batch: the tasks are handed to the workers (threads *)
(* for invoke and batch, one cooperative scheduler for ainvoke) in         *)
(* insertion order and run concurrently; they finish in any order.  The    *)
(* first failure aborts the group: no task starts any more, and the        *)
(* unfinished tasks after a failed one are cancelled or, where they cannot *)
(* be, run to their end.  The call returns when no task is left.           *)
(***************************************************************************)
TaskInput(i) == IF op = "batch" THEN args[i] ELSE args[1]

\* On the cooperative scheduler of ainvoke one task runs at a time.
MayRun == op = "ainvoke" => ~Running

Failed == \E i \in 1..N : st[i] = "failed"

\* The tasks that may be cancelled: those after a failed one.
Cancellable(i) == \E f \in 1..(i - 1) : st[f] = "failed"

TaskStart(i) ==
    /\ pc = "run" /\ Concurrent
    /\ st[i] = "pending"
    /\ \A j \in 1..(i - 1) : st[j] # "pending"
    /\ ~Failed
    /\ MayRun
    /\ st' = [st EXCEPT ![i] = "running"]
    /\ inp' = [inp EXCEPT ![i] = TaskInput(i)]
    /\ UNCHANGED <<pc, op, unit, args, out, yields, nxt, ret, prev>>

TaskFinish(i) ==
    /\ pc = "run" /\ Concurrent
    /\ st[i] = "running"
    /\ Finished(i, Invoke(TaskUnit(i), inp[i]))
    /\ UNCHANGED <<pc, op, unit, args, inp, yields, nxt, ret, prev>>

TaskCancel(i) ==
    /\ pc = "run" /\ Concurrent
    /\ st[i] \in {"pending", "running", "suspended"}
    /\ Cancellable(i)
    /\ st' = [st EXCEPT ![i] = "cancelled"]
    /\ UNCHANGED <<pc, op, unit, args, inp, out, yields, nxt, ret, prev>>

\* The task whose exception the call reports: the first failed one.
Reported == CHOOSE i \in 1..N : st[i] = "failed" /\ \A j \in 1..(i - 1) : st[j] # "failed"

\* What a Parallel gives: the full mapping, or the failed branch's exception
\* under the branch's name.
ParOutcome ==
    After(Traces(out, 1),
          IF Failed
          THEN ParallelBranchError(unit.keys[Reported],
                                   [out[Reported] EXCEPT !.trace = <<>>])
          ELSE Ok(Mapping(unit.keys, out)))

\* What batch gives: the outputs in input order, or the failed element's
\* exception under the element's position.
BatchOutcome ==
    After(Traces(out, 1),
          IF Failed
          THEN BatchElementError(Reported, [out[Reported] EXCEPT !.trace = <<>>])
          ELSE [Ok(NoneV) EXCEPT !.val = [i \in 1..N |-> out[i].val]])

\* Every task has ended: the results are all there, or the group was aborted
\* and is drained.
Collected == \A i \in 1..N : Terminal(i)

ParReturn ==
    /\ pc = "run" /\ Serial("par")
    /\ Collected
    /\ Return(ParOutcome)
    /\ UNCHANGED <<op, unit, args, st, inp, out, yields, nxt, prev>>

BatchReturn ==
    /\ pc = "run" /\ op = "batch"
    /\ Collected
    /\ Return(BatchOutcome)
    /\ UNCHANGED <<op, unit, args, st, inp, out, yields, nxt, prev>>

(***************************************************************************)
(* Branch.invoke: the predicates in registration order, then one Unit.     *)
(***************************************************************************)
Untouched == \A i \in 1..N : st[i] = "pending"

\* The Unit run when predicate i is the first true one.
Selected(i) == i

BranchTest ==
    /\ pc = "run" /\ Serial("branch")
    /\ Untouched
    /\ nxt <= Len(unit.keys)
    /\ LET p == ApplyLeaf(unit.keys[nxt], args[1])
       IN IF ~p.ok
          THEN /\ Return(PredicateEvaluationError(unit.keys[nxt], p))
               /\ UNCHANGED <<st, inp, nxt>>
          ELSE IF Truthy(p.val)
          THEN /\ st' = [st EXCEPT ![Selected(nxt)] = "running"]
               /\ inp' = [inp EXCEPT ![Selected(nxt)] = args[1]]
               /\ UNCHANGED <<pc, ret, nxt>>
          ELSE /\ nxt' = nxt + 1
               /\ UNCHANGED <<pc, ret, st, inp>>
    /\ UNCHANGED <<op, unit, args, out, yields, prev>>

BranchDefault ==
    /\ pc = "run" /\ Serial("branch")
    /\ Untouched
    /\ nxt = Len(unit.keys) + 1
    /\ st' = [st EXCEPT ![N] = "running"]
    /\ inp' = [inp EXCEPT ![N] = args[1]]
    /\ UNCHANGED <<pc, op, unit, args, out, yields, nxt, ret, prev>>

BranchFinish(i) ==
    /\ pc = "run" /\ Serial("branch")
    /\ st[i] = "running"
    /\ Finished(i, Invoke(unit.kids[i], inp[i]))
    /\ UNCHANGED <<pc, op, unit, args, inp, yields, nxt, ret, prev>>

BranchReturn(i) ==
    /\ pc = "run" /\ Serial("branch")
    /\ st[i] \in {"ok", "failed"}
    /\ Return(out[i])
    /\ UNCHANGED <<op, unit, args, st, inp, out, yields, nxt, prev>>

(***************************************************************************)
(* ainvoke: a running task may suspend, and resumes when the scheduler is  *)
(* free.                                                                   *)
(***************************************************************************)
Suspend(i) ==
    /\ pc = "run" /\ op = "ainvoke"
    /\ st[i] = "running"
    /\ yields[i] < MaxYields
    /\ st' = [st EXCEPT ![i] = "suspended"]
    /\ yields' = [yields EXCEPT ![i] = @ + 1]
    /\ UNCHANGED <<pc, op, unit, args, inp, out, nxt, ret, prev>>

Resume(i) ==
    /\ pc = "run" /\ op = "ainvoke"
    /\ st[i] = "suspended"
    /\ ~Running
    /\ st' = [st EXCEPT ![i] = "running"]
    /\ UNCHANGED <<pc, op, unit, args, inp, out, yields, nxt, ret, prev>>

(***************************************************************************)
(* The caller.                                                             *)
(***************************************************************************)
IsLeftAssoc(u) == \E A \in Pool, B \in Pool, C \in Pool : u = LeftAssoc(A, B, C)

\* The caller takes the outcome; that of (A then B) then C, and that of an
\* invoke it will repeat as ainvoke, it keeps.
Reset ==
    /\ pc = "done"
    /\ prev' = IF IsLeftAssoc(unit) \/ (op = "invoke" /\ unit \in AsyncUnits)
               THEN [unit |-> unit, args |-> args, ret |-> ret]
               ELSE NoPrev
    /\ pc' = "idle"
    /\ op' = "none"
    /\ unit' = NoUnit
    /\ args' = <<>>
    /\ st' = <<>>
    /\ inp' = <<>>
    /\ out' = <<>>
    /\ yields' = <<>>
    /\ nxt' = 1
    /\ ret' = NoOutcome

Next ==
    \/ \E c \in Calls : Begin(c)
    \/ \E A \in Pool, B \in Pool, C \in Pool : BeginRight(A, B, C)
    \/ BeginAsync
    \/ DictInvoke
    \/ LeafStart
    \/ LeafFinish
    \/ LeafReturn
    \/ \E i \in 1..N : SeqStart(i)
    \/ \E i \in 1..N : SeqFinish(i)
    \/ SeqReturn
    \/ \E i \in 1..N : TaskStart(i)
    \/ \E i \in 1..N : TaskFinish(i)
    \/ \E i \in 1..N : TaskCancel(i)
    \/ ParReturn
    \/ BatchReturn
    \/ BranchTest
    \/ BranchDefault
    \/ \E i \in 1..N : BranchFinish(i)
    \/ \E i \in 1..N : BranchReturn(i)
    \/ \E i \in 1..N : Suspend(i)
    \/ \E i \in 1..N : Resume(i)
    \/ Reset

Spec == Init /\ [][Next]_vars

(***************************************************************************)
(* Properties.                                                             *)
(***************************************************************************)
Done(o, kind) == pc = "done" /\ op = o /\ unit.k = kind

Fails(u, x) == ~Invoke(u, x).ok

\* The first child of u, in insertion order, that fails on x (0: none does).
FirstFailing(u, x) ==
    IF \A i \in DOMAIN u.kids : ~Fails(u.kids[i], x) THEN 0
    ELSE CHOOSE i \in DOMAIN u.kids :
            Fails(u.kids[i], x) /\ \A j \in 1..(i - 1) : ~Fails(u.kids[j], x)

KeySet(u) == {u.keys[i] : i \in DOMAIN u.keys}

\* C1: when every branch of a Parallel succeeds on x, invoke(x) returns, in
\* every interleaving of the branches, a mapping whose keys are exactly the
\* branch names and whose value at each name is that branch's invoke(x); every
\* branch has finished when it returns.  So example_1's parallel gives
\* {doubled: 10, tripled: 15, squared: 25} on 5 and example_4's nested one
\* {arithmetic: {add: 15, multiply: 10}, power: 25, negative: -5}.
C1_ParallelMapping ==
    (Done("invoke", "par") /\ FirstFailing(unit, args[1]) = 0) =>
        /\ ret.ok
        /\ ret.val.t = "dict"
        /\ DOMAIN ret.val.m = KeySet(unit)
        /\ \A i \in 1..N : ret.val.m[unit.keys[i]] = Invoke(unit.kids[i], args[1]).val
        /\ \A i \in 1..N : st[i] = "ok"
        /\ (unit = parallel_basic /\ args[1] = IntV(5)) =>
               ret.val = DictV([doubled |-> IntV(10), tripled |-> IntV(15),
                                squared |-> IntV(25)])
        /\ (unit = outer_parallel /\ args[1] = IntV(5)) =>
               ret.val = DictV([arithmetic |-> DictV([add |-> IntV(15),
                                                      multiply |-> IntV(10)]),
                                power |-> IntV(25), negative |-> IntV(-5)])

C1_Witness ==
    /\ Done("invoke", "par")
    /\ unit = outer_parallel
    /\ args[1] = IntV(5)
    /\ ret.ok

\* C2: when a branch of a Parallel raises on x, invoke(x) raises a
\* ParallelBranchError that names a branch that raises on x and carries that
\* branch's exception, and returns no mapping, whatever the other branches
\* have produced.  So the analysis pipeline of example_6 on the empty list
\* raises ParallelBranchError("statistics") over a ZeroDivisionError.
C2_ParallelFailure ==
    (Done("invoke", "par") /\ FirstFailing(unit, args[1]) # 0) =>
        /\ ~ret.ok
        /\ ret.val = NoneV
        /\ ret.err[1].kind = "ParallelBranchError"
        /\ \E i \in 1..N :
              /\ ret.err[1].name = unit.keys[i]
              /\ Fails(unit.kids[i], args[1])
              /\ Tail(ret.err) = Invoke(unit.kids[i], args[1]).err
        /\ (unit = analysis_pipeline /\ args[1] = ListV(<<>>)) =>
               ret.err = <<Layer("ParallelBranchError", "statistics", 0),
                           Layer("ZeroDivisionError", "", 0)>>

\* The statistics branch has failed while another branch's output was ready.
C2_Witness ==
    /\ Done("invoke", "par")
    /\ unit = analysis_pipeline
    /\ args[1] = ListV(<<>>)
    /\ ~ret.ok
    /\ st[2] = "ok"

\* The branch reported by a failed ainvoke of a Parallel is the first branch,
\* in insertion order, that fails on the input.
C3_Reported ==
    (Done("ainvoke", "par") /\ FirstFailing(unit, args[1]) # 0) =>
        /\ ~ret.ok
        /\ ret.val = NoneV
        /\ ret.err[1] =
               Layer("ParallelBranchError", unit.keys[FirstFailing(unit, args[1])], 0)
        /\ Tail(ret.err) = Invoke(unit.kids[FirstFailing(unit, args[1])], args[1]).err
        /\ (unit = parallel_step /\ "a" \notin DOMAIN args[1].m) =>
               ret.err = <<Layer("ParallelBranchError", "sum_result", 0),
                           Layer("KeyError", "a", 0)>>

\* Once a branch has failed, no pending branch starts and the call cannot
\* succeed.
C3_Aborts ==
    (pc = "run" /\ op = "ainvoke" /\ unit.k = "par" /\ Failed) =>
        /\ pc' = "run" => \E i \in 1..N : st'[i] = "failed"
        /\ pc' = "done" => ~ret'.ok
        /\ \A i \in 1..N : st[i] = "pending" => st'[i] \in {"pending", "cancelled"}

C4_SequenceOrder ==
    (pc \in {"run", "done"} /\ Serial("seq")) =>
        /\ \A i \in 1..N : st[i] # "pending" => inp[i] = SeqInput(i)
        /\ \A i \in 2..N : st[i] # "pending" => st[i - 1] = "ok"
        /\ (pc = "done" /\ ret.ok) =>
               /\ \A i \in 1..N : st[i] = "ok"
               /\ ret.val = out[N].val
               /\ out[N] = Invoke(unit.kids[N], inp[N])
        /\ (pc = "done" /\ unit = chain /\ args[1] = IntV(5)) => ret = After(ret.trace, Ok(IntV(20)))
        /\ (pc = "done" /\ unit = pipeline /\ args[1] = DictV([text |-> StrV(Awesome)])) =>
               /\ ret.ok
               /\ ret.val = StrV(TextHas \o <<51>> \o Words \o Bar \o ProcessedLabel
                                 \o <<76, 65, 78, 71, 67, 72, 65, 73, 78, 32, 73, 83, 32,
                                      65, 87, 69, 83, 79, 77, 69>>)

C4_Witness ==
    /\ Done("invoke", "seq")
    /\ unit = chain
    /\ args[1] = IntV(5)
    /\ inp[2] = IntV(10)
    /\ ret.val = IntV(20)

C6_ThenAssociative ==
    \A A \in Pool, B \in Pool, C \in Pool :
       (pc = "done" /\ unit = RightAssoc(A, B, C) /\ prev.unit = LeftAssoc(A, B, C)) =>
           /\ args = prev.args
           /\ ret.ok = prev.ret.ok
           /\ ret.err = prev.ret.err
           /\ ret.trace = prev.ret.trace
           /\ ret.val = prev.ret.val

\* B fails on A's output, in both compositions, and C is not called.
C6_Witness ==
    /\ pc = "done"
    /\ unit = RightAssoc(doubler, Leaf("sum_result"), adder)
    /\ prev.unit = LeftAssoc(doubler, Leaf("sum_result"), adder)
    /\ args[1] = IntV(5)
    /\ ~ret.ok
    /\ ret.trace = <<"DoubleRunnable", "sum_result">>

\* The registration position of the first predicate of u that is true on x,
\* the default's position when none is, and 0 when a predicate raises before
\* one is true.
RECURSIVE FirstTrue(_, _, _)
FirstTrue(u, i, x) ==
    IF i > Len(u.keys) THEN Len(u.kids)
    ELSE LET p == ApplyLeaf(u.keys[i], x)
         IN IF ~p.ok THEN 0
            ELSE IF Truthy(p.val) THEN i
            ELSE FirstTrue(u, i + 1, x)

IsText(x) == "text" \in DOMAIN x.m /\ x.m["text"].t = "str"

\* C7: Branch.invoke(x) runs exactly one Unit, that of the first predicate, in
\* registration order, that is true on x, or the default when none is, and
\* returns that Unit's outcome.  The example branch gives "Short text: " and
\* the text for a text shorter than 10, "Medium text: ", the first 20
\* characters and "..." for one of 10 to 49, and "Long text: ", the first 30
\* characters and "..." for one of 50 or more.
C7_BranchSelection ==
    (Done("invoke", "branch") /\ FirstTrue(unit, 1, args[1]) # 0) =>
        LET sel == FirstTrue(unit, 1, args[1])
        IN /\ \A i \in 1..N : st[i] # "pending" <=> i = sel
           /\ inp[sel] = args[1]
           /\ ret = Invoke(unit.kids[sel], args[1])
           /\ (unit = branch /\ IsText(args[1])) =>
                  LET q == args[1].m["text"].s
                  IN ret.val =
                        IF Len(q) < 10 THEN StrV(ShortLabel \o q)
                        ELSE IF Len(q) < 50
                        THEN StrV(MediumLabel \o SubSeq(q, 1, Min(20, Len(q))) \o Ellipsis)
                        ELSE StrV(LongLabel \o SubSeq(q, 1, 30) \o Ellipsis)

\* A text of exactly 10 characters is medium.
C7_Witness ==
    /\ Done("invoke", "branch")
    /\ unit = branch
    /\ args[1] = DictV([text |-> StrV(TextOf(10))])
    /\ st = <<"pending", "ok", "pending">>
    /\ ret.ok

\* C8: when a predicate of a Branch raises on x before any predicate is true,
\* invoke(x) raises a PredicateEvaluationError and no Unit, listed or
\* default, has been run; when the selected Unit raises, the exception
\* raised is the Unit's own and no PredicateEvaluationError.  So the example
\* branch on {} raises PredicateEvaluationError over the KeyError of its
\* first predicate.
C8_PredicateError ==
    Done("invoke", "branch") =>
        /\ FirstTrue(unit, 1, args[1]) = 0 =>
              /\ ~ret.ok
              /\ ret.val = NoneV
              /\ ret.err[1].kind = "PredicateEvaluationError"
              /\ \A i \in 1..N : st[i] = "pending"
        /\ \A i \in 1..N :
              st[i] = "failed" =>
                 /\ ret.err = out[i].err
                 /\ ret.err[1].kind # "PredicateEvaluationError"
        /\ (unit = branch /\ args[1] = DictV(NoMap)) =>
               ret.err = <<Layer("PredicateEvaluationError", "cond_short", 0),
                           Layer("KeyError", "text", 0)>>

C8_Witness ==
    /\ Done("invoke", "branch")
    /\ unit = branch
    /\ args[1] = DictV(NoMap)
    /\ ret.err[1].kind = "PredicateEvaluationError"
    /\ \A i \in 1..N : st[i] = "pending"

\* The first element of xs, in input order, that u fails on (0: none).
FirstFailingElement(u, xs) ==
    IF \A i \in DOMAIN xs : ~Fails(u, xs[i]) THEN 0
    ELSE CHOOSE i \in DOMAIN xs : Fails(u, xs[i]) /\ \A j \in 1..(i - 1) : ~Fails(u, xs[j])

\* C9: when U succeeds on every element of xs, U.batch(xs) is the list of
\* U.invoke(xs[i]), position by position, in every interleaving of the
\* elements' executions.  So doubler.batch([1, 2, 3, 4, 5]) is
\* [2, 4, 6, 8, 10].
C9_BatchOrder ==
    (pc = "done" /\ op = "batch" /\ FirstFailingElement(unit, args) = 0) =>
        /\ ret.ok
        /\ DOMAIN ret.val = DOMAIN args
        /\ \A i \in DOMAIN args : ret.val[i] = Invoke(unit, args[i]).val
        /\ (unit = doubler /\ args = <<IntV(1), IntV(2), IntV(3), IntV(4), IntV(5)>>) =>
               ret.val = <<IntV(2), IntV(4), IntV(6), IntV(8), IntV(10)>>

C9_Witness ==
    /\ pc = "done" /\ op = "batch"
    /\ unit = doubler
    /\ args = <<StrV(<<120>>), IntV(1)>>
    /\ ret.ok
    /\ ret.val = <<StrV(<<120, 120>>), IntV(2)>>

\* C10: when U fails on an element of xs, U.batch(xs) returns no list and
\* raises a BatchElementError carrying the position of the first element of
\* xs, in input order, that U fails on, over that element's exception, in
\* every interleaving of the elements' executions.
C10_BatchFailure ==
    (pc = "done" /\ op = "batch" /\ FirstFailingElement(unit, args) # 0) =>
        LET f == FirstFailingElement(unit, args)
        IN /\ ~ret.ok
           /\ ret.val = NoneV
           /\ ret.err[1] = Layer("BatchElementError", "", f)
           /\ Tail(ret.err) = Invoke(unit, args[f]).err
           /\ (unit = doubler /\ args = <<IntV(1), StrV(<<120>>), NoneV>>) =>
                  ret.err = <<Layer("BatchElementError", "", 3), Layer("TypeError", "", 0)>>

\* The third element failed and the first had succeeded before the second
\* did; the second is the one reported.
C10_Witness ==
    /\ pc = "done" /\ op = "batch"
    /\ unit = doubler
    /\ args = <<IntV(1), NoneV, NoneV>>
    /\ st = <<"ok", "failed", "failed">>
    /\ ret.err[1].idx = 2

\* C11: awaiting ainvoke(x) after invoke(x) on the same Unit, leaf or
\* composite, gives the outcome invoke(x) gave, the same value or the same
\* exception, in every interleaving of the children's suspensions.  So
\* doubler.ainvoke(7) is 14, as doubler.invoke(7) is.
C11_AsyncEqualsSync ==
    /\ (pc = "done" /\ op = "ainvoke" /\ prev.unit = unit) =>
           /\ args = prev.args
           /\ ret.ok = prev.ret.ok
           /\ ret.val = prev.ret.val
           /\ ret.err = prev.ret.err
    /\ (pc = "done" /\ op \in {"invoke", "ainvoke"} /\ unit = doubler /\ args = <<IntV(7)>>) =>
           ret.ok /\ ret.val = IntV(14)

\* Every branch of example_4's nested parallel has suspended, and the mapping
\* is that of invoke.
C11_Witness ==
    /\ pc = "done" /\ op = "ainvoke"
    /\ unit = outer_parallel /\ prev.unit = unit
    /\ args = <<IntV(5)>>
    /\ \A i \in 1..N : yields[i] = MaxYields
    /\ ret.ok /\ ret.val = prev.ret.val

\* C12: the dict literal of example_2_dict_syntax, invoked with 3, returns
\* {add_10: 13, multiply_5: 15}, the mapping the RunnableParallel of the same
\* branches returns.
C12_DictSugar ==
    (pc = "done" /\ op = "invoke" /\ unit = dict_parallel /\ args = <<IntV(3)>>) =>
        /\ ret.ok
        /\ ret.val = DictV([add_10 |-> IntV(13), multiply_5 |-> IntV(15)])
        /\ ret.val = Invoke(explicit_parallel, IntV(3)).val

\* What the code does: no branch of the dict is ever started, and the call
\* raises AttributeError; the RunnableParallel of the same branches returns
\* the mapping.
C12_DictHasNoInvoke ==
    /\ (pc = "done" /\ unit.k = "dict") =>
           /\ ~ret.ok
           /\ ret.err = <<Layer("AttributeError", "invoke", 0)>>
           /\ \A i \in 1..N : st[i] = "pending"
    /\ (pc = "done" /\ unit = explicit_parallel /\ args = <<IntV(3)>>) =>
           ret.val = DictV([add_10 |-> IntV(13), multiply_5 |-> IntV(15)])

C12_Witness ==
    /\ pc = "done" /\ op = "invoke"
    /\ unit = dict_parallel
    /\ args = <<IntV(3)>>
    /\ ret.err = <<Layer("AttributeError", "invoke", 0)>>

\* C13: MockChatModel.invoke on a list of messages answers for the last
\* message alone, by the keywords in its lower-cased content: the joke reply
\* exactly when it contains "joke"; the translation reply exactly when it
\* contains "translate" and not "joke"; the summary reply exactly when it
\* contains "summarize" and neither; and otherwise "I received your message: "
\* and the content.  So in the parallel of example_2_parallel_branches, whose
\* branches share one model, each branch returns the reply to its own prompt:
\* the joke and "Bonjour le monde!" on {topic: Python, text: Hello world}.
C13_MockChatModel ==
    /\ (pc = "done" /\ op = "invoke" /\ unit = model /\ args[1].n > 0) =>
           LET last == args[1].m[IndexKeys[args[1].n]]
               content == IF last.t = "message" THEN last.s ELSE PyFormat(last)
               joke == Contains(Lower(content), JokeWord)
               translate == Contains(Lower(content), TranslateWord)
               summarize == Contains(Lower(content), SummarizeWord)
           IN /\ ret.ok
              /\ ret.val.t = "message"
              /\ joke <=> ret.val.s = JokeReply
              /\ (translate /\ ~joke) <=> ret.val.s = TranslationReply
              /\ (summarize /\ ~translate /\ ~joke) <=> ret.val.s = SummaryReply
              /\ (~joke /\ ~translate /\ ~summarize) <=> ret.val.s = EchoLabel \o content
              /\ ret.val = Invoke(model, MessagesV(<<last>>)).val
    /\ (pc = "done" /\ unit = chat_parallel /\ ret.ok) =>
           /\ ret.val.m["joke"] = StrV(JokeReply)
           /\ ret.val.m["translation"] =
                  StrV(IF Contains(Lower(args[1].m["text"].s), JokeWord) THEN JokeReply
                       ELSE TranslationReply)
    /\ (pc = "done" /\ unit = chat_parallel
           /\ args = <<ChatExample>>) =>
           /\ ret.ok
           /\ ret.val = DictV([joke |-> StrV(JokeReply),
                               translation |-> StrV(TranslationReply)])

\* The last of two messages asks to translate a joke, and gets the joke.
C13_Witness ==
    /\ pc = "done" /\ op = "invoke" /\ unit = model
    /\ args[1].n = 2
    /\ args[1].m["2"] = MsgV(<<84, 114, 97, 110, 115, 108, 97, 116, 101, 74, 111, 107, 101>>)
    /\ ret.val = MsgV(JokeReply)

====
